---- MODULE Spec2Model ----
(***************************************************************************)
(* Model of main.py: a polling loop that searches a mailbox for unseen     *)
(* pipeline notifications, marks each one seen, classifies it by subject   *)
(* and creates a work item on an Azure DevOps board.                       *)
(*                                                                         *)
(* Every blocking external call (IMAP command, HTTP request, sleep) is one *)
(* step of the single thread; pc is the thread's position.  Strings the    *)
(* code inspects (the subject) are sequences of one-character strings.     *)
(***************************************************************************)
EXTENDS Integers, Sequences, FiniteSets, TLC

\* ------------------------------------------------------------------ bounds
\* number of emails in the mailbox
NumMsgs == 2
\* longest state list the board answers with
MaxStatesLen == 2
\* longest type list the board answers with
MaxTypesLen == 2

\* ------------------------------------------------------------ text helpers
UpperAlpha == <<"A", "B", "C", "D", "E", "F", "G", "H", "I", "J", "K", "L", "M", "N", "O", "P", "Q", "R", "S", "T", "U", "V", "W", "X", "Y", "Z">>

LowerAlpha == <<"a", "b", "c", "d", "e", "f", "g", "h", "i", "j", "k", "l", "m", "n", "o", "p", "q", "r", "s", "t", "u", "v", "w", "x", "y", "z">>

\* str.lower() on one character
LowerChar(c) ==
    IF \E i \in 1..Len(UpperAlpha) : UpperAlpha[i] = c
    THEN LowerAlpha[CHOOSE i \in 1..Len(UpperAlpha) : UpperAlpha[i] = c]
    ELSE c

\* str.lower()
Lower(s) == [i \in 1..Len(s) |-> LowerChar(s[i])]

\* Python's  t in s  for strings: t occurs as a contiguous substring of s
Contains(s, t) ==
    \E i \in 0..(Len(s) - Len(t)) : SubSeq(s, i + 1, i + Len(t)) = t

\* Python's  x in lst  for lists
InList(x, lst) == \E i \in 1..Len(lst) : lst[i] = x

\* all lists over S of length at most n
RECURSIVE ListsUpTo(_, _)
ListsUpTo(S, n) ==
    IF n = 0 THEN {<<>>}
    ELSE LET shorter == ListsUpTo(S, n - 1)
         IN  shorter \cup {Append(l, x) : l \in {k \in shorter : Len(k) = n - 1}, x \in S}

TokenFailed == <<"f", "a", "i", "l", "e", "d">>

TokenSucceeded == <<"s", "u", "c", "c", "e", "e", "d", "e", "d">>

\* ------------------------------------------------------------ configuration
\* TABLERO_CONFIG["mapeo_columnas_estados"], in insertion order
ColumnOrder == <<"Bugs creados", "En revision", "Ejecucion existosa">>

mapeo_columnas_estados ==
    ("Bugs creados" :> "To Do") @@ ("En revision" :> "Doing") @@ ("Ejecucion existosa" :> "Done")

\* dict.get(key, default)
DictGet(d, k, default) == IF k \in DOMAIN d THEN d[k] ELSE default

DefaultTypes == <<"Issue", "Task">>

DefaultStates == <<"To Do", "Doing", "Done">>

\* ------------------------------------------------------ environment inputs
Msgs == 1..NumMsgs

SubjFailed == <<"B", "u", "i", "l", "d", " ", "f", "a", "i", "l", "e", "d">>

SubjDigest == <<"W", "e", "e", "k", "l", "y", " ", "d", "i", "g", "e", "s", "t">>

SubjSucceeded == <<"R", "u", "n", " ", "S", "u", "c", "c", "e", "e", "d", "e", "d">>

SubjBoth == <<"s", "u", "c", "c", "e", "e", "d", "e", "d", ",", " ", "F", "A", "I", "L", "E", "D">>

SubjBothFS == <<"F", "a", "i", "l", "e", "d", " ", "s", "u", "c", "c", "e", "e", "d", "e", "d">>

SubjMixed == <<"F", "a", "I", "l", "E", "d">>

SubjPartial == <<"f", "a", "i", "l", " ", "s", "u", "c", "c", "e", "e", "d", "e">>

SubjEmpty == <<>>

SubjectList ==
    <<SubjFailed, SubjDigest, SubjSucceeded, SubjBoth, SubjBothFS, SubjMixed, SubjPartial, SubjEmpty>>

Subjects == {SubjectList[i] : i \in 1..Len(SubjectList)}

\* the mailboxes explored: each gives every email its decoded subject
MailboxShifts == {0, 2}

Mailboxes ==
    {[m \in Msgs |-> SubjectList[((m - 1 + k) % Len(SubjectList)) + 1]] : k \in MailboxShifts}

\* state names a board may list for a type: the states process_mail's two
\* columns map to and one the configuration does not know
BoardStates == {"To Do", "Done", "New"}

\* the names of BoardStates and the state of the remaining configured column
ResolveStates == BoardStates \cup {"Doing"}

\* type names a board may list
BoardTypes == {"Issue", "Task", "Bug"}

StateLists == ListsUpTo(BoardStates, MaxStatesLen)

ResolveStateLists == ListsUpTo(ResolveStates, MaxStatesLen)

TypeLists == ListsUpTo(BoardTypes, MaxTypesLen)

\* columns create_work_item may be handed: the mapped ones and an unmapped one
Columns == DOMAIN mapeo_columnas_estados \cup {"Backlog"}

ImapOutcomes == {"OK", "NO", "exception"}

HttpOutcomes == {"200", "201", "500", "exception"}

\* outcomes of the creation request: a status other than 200 and 201 may still
\* be a 2xx one
PostOutcomes == HttpOutcomes \cup {"204"}

\* outcomes of connect_mail's three calls: all answer OK, one of them raises,
\* or select answers NO, which imaplib returns as a status without raising
ConnectOutcomes == {"OK", "select_NO", "exception"}

\* ------------------------------------------------- get_work_item_types/states
\* get_work_item_types: the board's list on 200, the fixed list otherwise
GetWorkItemTypesResult(status, body) ==
    IF status = "200" THEN body ELSE DefaultTypes

\* get_work_item_states: the board's list on 200, the fixed list otherwise
GetWorkItemStatesResult(status, body) ==
    IF status = "200" THEN body ELSE DefaultStates

\* --------------------------------------------- create_work_item, lines 118-125
ResolveState_AlwaysToDo(target_column, available_states) ==
    LET desired == DictGet(mapeo_columnas_estados, target_column, "To Do")
    IN  IF InList(desired, available_states)
        THEN [state |-> desired, logged |-> FALSE, raised |-> FALSE]
        ELSE [state |-> "To Do", logged |-> TRUE, raised |-> FALSE]

ResolveState_FirstBeforeToDo(target_column, available_states) ==
    LET desired == DictGet(mapeo_columnas_estados, target_column, "To Do")
    IN  IF InList(desired, available_states)
        THEN [state |-> desired, logged |-> FALSE, raised |-> FALSE]
        ELSE IF available_states # <<>>
        THEN [state |-> available_states[1], logged |-> TRUE, raised |-> FALSE]
        ELSE [state |-> desired, logged |-> TRUE, raised |-> TRUE]

ResolveState_NoVerify(target_column, available_states) ==
    [state |-> DictGet(mapeo_columnas_estados, target_column, "To Do"),
     logged |-> FALSE, raised |-> FALSE]

\* state: target_state after the block; logged: the fallback record was
\* written; raised: available_states[0] raised IndexError (target_state
\* then keeps the desired value, the assignment never happened)
ResolveState(target_column, available_states) ==
    LET desired == DictGet(mapeo_columnas_estados, target_column, "To Do")
    IN  IF InList(desired, available_states)
        THEN [state |-> desired, logged |-> FALSE, raised |-> FALSE]
        ELSE IF InList("To Do", available_states)
        THEN [state |-> "To Do", logged |-> TRUE, raised |-> FALSE]
        ELSE IF available_states = <<>>
        THEN [state |-> desired, logged |-> TRUE, raised |-> TRUE]
        ELSE [state |-> available_states[1], logged |-> TRUE, raised |-> FALSE]

\* ------------------------------------------------- process_mail, lines 193-211
\* (characters outside ASCII in the title prefixes are written [U+xxxx])
PickType_AlwaysFirst(available_types) ==
    IF available_types = <<>>
    THEN [type |-> "none", raised |-> TRUE]
    ELSE [type |-> available_types[1], raised |-> FALSE]

\* "Issue" if "Issue" in available_types else available_types[0]
PickType(available_types) ==
    IF InList("Issue", available_types)
    THEN [type |-> "Issue", raised |-> FALSE]
    ELSE IF available_types = <<>>
    THEN [type |-> "none", raised |-> TRUE]
    ELSE [type |-> available_types[1], raised |-> FALSE]

Classify_SwappedPrefix(decoded_subject) ==
    IF Contains(Lower(decoded_subject), TokenFailed)
    THEN [category |-> "Failure", target_column |-> "Bugs creados",
          prefix |-> "[U+2705] Pipeline exitoso: ", create |-> TRUE]
    ELSE IF Contains(Lower(decoded_subject), TokenSucceeded)
    THEN [category |-> "Success", target_column |-> "Ejecucion existosa",
          prefix |-> "[U+274C] Error en pipeline: ", create |-> TRUE]
    ELSE [category |-> "Unclassified", target_column |-> ColumnOrder[1],
          prefix |-> "[U+1F4CB] Notificaci[U+00F3]n pipeline: ", create |-> FALSE]

Classify_SucceededFirst(decoded_subject) ==
    IF Contains(Lower(decoded_subject), TokenSucceeded)
    THEN [category |-> "Success", target_column |-> "Ejecucion existosa",
          prefix |-> "[U+2705] Pipeline exitoso: ", create |-> TRUE]
    ELSE IF Contains(Lower(decoded_subject), TokenFailed)
    THEN [category |-> "Failure", target_column |-> "Bugs creados",
          prefix |-> "[U+274C] Error en pipeline: ", create |-> TRUE]
    ELSE [category |-> "Unclassified", target_column |-> ColumnOrder[1],
          prefix |-> "[U+1F4CB] Notificaci[U+00F3]n pipeline: ", create |-> FALSE]

Classify_OtherCreates(decoded_subject) ==
    IF Contains(Lower(decoded_subject), TokenFailed)
    THEN [category |-> "Failure", target_column |-> "Bugs creados",
          prefix |-> "[U+274C] Error en pipeline: ", create |-> TRUE]
    ELSE IF Contains(Lower(decoded_subject), TokenSucceeded)
    THEN [category |-> "Success", target_column |-> "Ejecucion existosa",
          prefix |-> "[U+2705] Pipeline exitoso: ", create |-> TRUE]
    ELSE [category |-> "Unclassified", target_column |-> ColumnOrder[1],
          prefix |-> "[U+1F4CB] Notificaci[U+00F3]n pipeline: ", create |-> TRUE]

\* the branch taken on the subject; create is FALSE on the branch that returns
Classify(decoded_subject) ==
    IF Contains(Lower(decoded_subject), TokenFailed)
    THEN [category |-> "Failure", target_column |-> "Bugs creados",
          prefix |-> "[U+274C] Error en pipeline: ", create |-> TRUE]
    ELSE IF Contains(Lower(decoded_subject), TokenSucceeded)
    THEN [category |-> "Success", target_column |-> "Ejecucion existosa",
          prefix |-> "[U+2705] Pipeline exitoso: ", create |-> TRUE]
    ELSE [category |-> "Unclassified", target_column |-> ColumnOrder[1],
          prefix |-> "[U+1F4CB] Notificaci[U+00F3]n pipeline: ", create |-> FALSE]

\* ------------------------------------------------------------ control flow
NextAfterFetch_NoReturn(status) ==
    IF status = "exception" THEN "return" ELSE "store"

NextAfterFetch_NoStore(status) ==
    IF status = "OK" THEN "types" ELSE "return"

\* process_mail after mail.fetch: a status other than OK returns, an
\* exception is caught and returns, OK goes on to the mark-seen store
NextAfterFetch(status) ==
    IF status = "OK" THEN "store" ELSE "return"

NextAfterStore_Propagate(status) ==
    IF status = "exception" THEN "sleep_except" ELSE "types"

\* process_mail after mail.store: the returned status is discarded, only an
\* exception leaves the function
NextAfterStore(status) ==
    IF status = "exception" THEN "return" ELSE "types"

CreateReport_Any2xx(status, readable) ==
    IF status = "exception"
    THEN [success |-> FALSE, logs |-> <<"log_excepcion_crear">>]
    ELSE IF status \in {"200", "201", "204"}
    THEN IF readable
         THEN [success |-> TRUE, logs |-> <<"log_creado">>]
         ELSE [success |-> FALSE, logs |-> <<"unreadable", "log_excepcion_crear">>]
    ELSE [success |-> FALSE, logs |-> <<"log_error_creando">>]

\* create_work_item from requests.post on: True only on 200 or 201 with a body
\* response.json() can read; the record logged on each path
CreateReport(status, readable) ==
    IF status = "exception"
    THEN [success |-> FALSE, logs |-> <<"log_excepcion_crear">>]
    ELSE IF status \in {"200", "201"}
    THEN IF readable
         THEN [success |-> TRUE, logs |-> <<"log_creado">>]
         ELSE [success |-> FALSE, logs |-> <<"unreadable", "log_excepcion_crear">>]
    ELSE [success |-> FALSE, logs |-> <<"log_error_creando">>]

\* process_mail: the record logged on create_work_item's return value
LogOfSuccess(success) ==
    IF success THEN <<"log_asignado">> ELSE <<"log_no_se_pudo">>

\* connect_mail: the session when no call raised, None otherwise; a session
\* whose select answered NO has no mailbox selected
ConnectMailResult(outcome) ==
    IF outcome = "exception" THEN "None"
    ELSE IF outcome = "OK" THEN "open" ELSE "unselected"

\* main_loop: if mail: ... ; time.sleep(60)
AfterConnect(m) == IF m # "None" THEN "search" ELSE "sleep"

\* check_azure_devops_mails: the ids of the unseen emails, in mailbox order,
\* on OK; the empty list on any other status or an exception
RECURSIVE UnseenFrom(_, _)
UnseenFrom(m, seenNow) ==
    IF m > NumMsgs THEN <<>>
    ELSE IF seenNow[m] THEN UnseenFrom(m + 1, seenNow)
    ELSE <<m>> \o UnseenFrom(m + 1, seenNow)

CheckAzureDevopsMails(status, seenNow) ==
    IF status = "OK" THEN UnseenFrom(1, seenNow) ELSE <<>>

MessagesToProcess_All(found) == UnseenFrom(1, [m \in Msgs |-> FALSE])

\* main_loop: the messages handed to process_mail are the ones found
MessagesToProcess(found) == found

AfterLoopException_NoSleep == "connect"

AfterLoopException_Halt == "halt"

\* main_loop: the except clause logs and sleeps, the while continues
AfterLoopException == "sleep_except"

\* ------------------------------------------------------------------ state
VARIABLES
    pc,               \* position of the thread
    mail,             \* main_loop's mail: "None", or the condition of its session
    subject,          \* the decoded subject of each email in the mailbox
    seen,             \* the mailbox's \Seen flag of each email
    azure_mails,      \* ids of this cycle still to be handed to process_mail
    msg_id,           \* id being processed, 0 outside process_mail
    decoded_subject,  \* process_mail local
    types_response,   \* what the type-listing call of this invocation answered
    available_types,  \* process_mail local
    work_item_type,   \* process_mail local / create_work_item argument
    target_column,    \* process_mail local / create_work_item argument
    title,            \* process_mail local / create_work_item argument
    states_response,  \* what the state-listing call of this invocation answered
    available_states, \* create_work_item local
    target_state,     \* create_work_item local
    trace,            \* calls and log records of the current process_mail
    submitted,        \* emails a creation request was submitted for, so far
    search_empty      \* this cycle's search returned no ids

vars == <<pc, mail, subject, seen, azure_mails, msg_id, decoded_subject,
          types_response, available_types,
          work_item_type, target_column, title, states_response,
          available_states, target_state, trace, submitted,
          search_empty>>

NoResponse == [status |-> "none", body |-> <<>>]

NoTitle == [prefix |-> "", subject |-> <<>>]

\* the locals of process_mail and create_work_item before they are assigned
LocalsUnset ==
    /\ decoded_subject' = <<>>
    /\ types_response' = NoResponse
    /\ available_types' = <<>>
    /\ work_item_type' = "none"
    /\ target_column' = "none"
    /\ title' = NoTitle
    /\ states_response' = NoResponse
    /\ available_states' = <<>>
    /\ target_state' = "none"

LocalsUnchanged ==
    UNCHANGED <<decoded_subject, types_response, available_types, work_item_type,
                target_column, title, states_response, available_states,
                target_state>>

MailboxInit ==
    /\ mail = "None"
    /\ subject \in Mailboxes
    /\ seen = [m \in Msgs |-> FALSE]
    /\ azure_mails = <<>>
    /\ msg_id = 0
    /\ submitted = {}
    /\ search_empty = FALSE

LocalsInit ==
    /\ decoded_subject = <<>>
    /\ types_response = NoResponse
    /\ available_types = <<>>
    /\ work_item_type = "none"
    /\ target_column = "none"
    /\ title = NoTitle
    /\ states_response = NoResponse
    /\ available_states = <<>>
    /\ target_state = "none"
    /\ trace = <<>>

Init ==
    /\ pc = "startup"
    /\ MailboxInit
    /\ LocalsInit

\* ---------------------------------------------------------------- actions
\* main_loop: the for loop takes the next id, or ends and the session is closed
NextMessage ==
    IF azure_mails = <<>>
    THEN /\ pc' = "close"
         /\ msg_id' = 0
         /\ azure_mails' = <<>>
    ELSE /\ pc' = "fetch"
         /\ msg_id' = Head(azure_mails)
         /\ azure_mails' = Tail(azure_mails)

\* main_loop before the while: get_work_item_types(), result only logged
GetWorkItemTypesStartup ==
    /\ pc = "startup"
    /\ \E status \in HttpOutcomes, body \in TypeLists :
          GetWorkItemTypesResult(status, body) \in Seq(BoardTypes)
    /\ pc' = "connect"
    /\ UNCHANGED <<mail, subject, seen, azure_mails, msg_id, trace, submitted, search_empty>>
    /\ LocalsUnchanged

\* connect_mail: a session, or None after any failure of connect/login/select
ConnectMail ==
    /\ pc = "connect"
    /\ \E outcome \in ConnectOutcomes : mail' = ConnectMailResult(outcome)
    /\ pc' = AfterConnect(mail')
    /\ search_empty' = FALSE
    /\ UNCHANGED <<subject, seen, azure_mails, msg_id, trace, submitted>>
    /\ LocalsUnchanged

\* check_azure_devops_mails and the branch on its result; with no mailbox
\* selected imaplib raises on search, which the function catches
SearchMails ==
    /\ pc = "search"
    /\ \E status \in ImapOutcomes :
          /\ (mail = "unselected") => status = "exception"
          /\ LET found == CheckAzureDevopsMails(status, seen)
              todo  == MessagesToProcess(found)
             IN  /\ search_empty' = (found = <<>>)
                 /\ IF todo # <<>>
                    THEN /\ pc' = "fetch"
                         /\ msg_id' = Head(todo)
                         /\ azure_mails' = Tail(todo)
                    ELSE /\ pc' = "close"
                         /\ msg_id' = 0
                         /\ azure_mails' = <<>>
    /\ UNCHANGED <<mail, subject, seen, trace, submitted>>
    /\ LocalsUnchanged

\* process_mail returns: its locals and those of create_work_item are gone
ReturnFromProcessMail ==
    /\ LocalsUnset
    /\ NextMessage

\* process_mail: mail.fetch(msg_id, "(RFC822)") and the decoding of the subject.
\* The mailbox is selected read-write, so a server may set \Seen itself when it
\* serves the body; whether it does is the server's choice.
FetchMail ==
    /\ pc = "fetch"
    /\ \E status \in ImapOutcomes, implicit \in BOOLEAN :
          /\ (status # "OK") => ~implicit
          /\ seen' = IF implicit THEN [seen EXCEPT ![msg_id] = TRUE] ELSE seen
          /\ IF NextAfterFetch(status) = "return"
             THEN /\ trace' = IF status = "exception"
                              THEN <<"fetch", status, "log_error_procesando">>
                              ELSE <<"fetch", status>>
                  /\ ReturnFromProcessMail
             ELSE /\ decoded_subject' = subject[msg_id]
                  /\ trace' = <<"fetch", status, "log_procesando">>
                  /\ pc' = NextAfterFetch(status)
                  /\ UNCHANGED <<azure_mails, msg_id, types_response, available_types, work_item_type,
                                 target_column, title, states_response,
                                 available_states, target_state>>
    /\ UNCHANGED <<mail, subject, submitted, search_empty>>

\* process_mail: mail.store(msg_id, '+FLAGS', '\\Seen'); the flag is set when
\* the server answers OK
StoreSeen ==
    /\ pc = "store"
    /\ \E status \in ImapOutcomes :
          /\ seen' = IF status = "OK" THEN [seen EXCEPT ![msg_id] = TRUE] ELSE seen
          /\ IF NextAfterStore(status) = "return"
             THEN /\ trace' = trace \o <<"store", status, "log_error_procesando">>
                  /\ ReturnFromProcessMail
             ELSE /\ trace' = trace \o <<"store", status>>
                  /\ pc' = NextAfterStore(status)
                  /\ UNCHANGED <<azure_mails, msg_id>>
                  /\ LocalsUnchanged
    /\ UNCHANGED <<mail, subject, submitted, search_empty>>

\* process_mail: available_types = get_work_item_types()
GetWorkItemTypes ==
    /\ pc = "types"
    /\ \E status \in HttpOutcomes, body \in TypeLists :
          /\ (status # "200") => body = <<>>
          /\ types_response' = [status |-> status, body |-> body]
          /\ available_types' = GetWorkItemTypesResult(status, body)
    /\ trace' = Append(trace, "types")
    /\ pc' = "classify"
    /\ UNCHANGED <<mail, subject, seen, azure_mails, msg_id, decoded_subject, work_item_type,
                   target_column, title, states_response, available_states,
                   target_state, submitted, search_empty>>

\* process_mail: the if/elif/else on the subject, up to the call of
\* create_work_item
ClassifyMail ==
    /\ pc = "classify"
    /\ LET c == Classify(decoded_subject)
           t == PickType(available_types)
       IN  IF t.raised
           THEN /\ trace' = trace \o <<"IndexError", "log_error_procesando">>
                /\ ReturnFromProcessMail
           ELSE IF c.create
           THEN /\ work_item_type' = t.type
                /\ target_column' = c.target_column
                /\ title' = [prefix |-> c.prefix, subject |-> decoded_subject]
                /\ trace' = Append(trace, "classified")
                /\ pc' = "states"
                /\ UNCHANGED <<azure_mails, msg_id, decoded_subject, types_response,
                               available_types,
                               states_response, available_states, target_state>>
           ELSE /\ trace' = Append(trace, "log_sin_accion")
                /\ ReturnFromProcessMail
    /\ UNCHANGED <<mail, subject, seen, submitted, search_empty>>

\* create_work_item: available_states = get_work_item_states(work_item_type).
\* process_mail never reads available_types after the call, it and the answer
\* it came from are dropped here
GetWorkItemStates ==
    /\ pc = "states"
    /\ \E status \in HttpOutcomes, body \in StateLists :
          /\ (status # "200") => body = <<>>
          /\ states_response' = [status |-> status, body |-> body]
          /\ available_states' = GetWorkItemStatesResult(status, body)
    /\ trace' = Append(trace, "states")
    /\ pc' = "resolve"
    /\ types_response' = NoResponse
    /\ available_types' = <<>>
    /\ UNCHANGED <<mail, subject, seen, azure_mails, msg_id, decoded_subject,
                   work_item_type, target_column, title, target_state, submitted,
                   search_empty>>

\* create_work_item: the choice of target_state and the payload; an IndexError
\* is caught by the function's except clause, which returns False
ResolveTargetState ==
    /\ pc = "resolve"
    /\ LET r == ResolveState(target_column, available_states)
           logged == IF r.logged THEN <<"log_fallback">> ELSE <<>>
       IN  IF r.raised
           THEN /\ trace' = trace \o logged
                              \o <<"IndexError", "log_excepcion_crear", "log_no_se_pudo">>
                /\ ReturnFromProcessMail
           ELSE /\ target_state' = r.state
                /\ trace' = trace \o logged \o <<"resolved">>
                /\ pc' = "post"
                /\ UNCHANGED <<azure_mails, msg_id, decoded_subject, types_response,
                               available_types,
                               work_item_type, target_column, title, states_response,
                               available_states>>
    /\ UNCHANGED <<mail, subject, seen, submitted, search_empty>>

\* create_work_item: requests.post with State = target_state, and the report
\* to process_mail
PostWorkItem ==
    /\ pc = "post"
    /\ \E status \in PostOutcomes, readable \in BOOLEAN :
          /\ (status \notin {"200", "201"}) => readable
          /\ LET r == CreateReport(status, readable)
             IN  trace' = trace \o <<"post", status>> \o r.logs
                                \o LogOfSuccess(r.success)
    /\ submitted' = submitted \cup {msg_id}
    /\ ReturnFromProcessMail
    /\ UNCHANGED <<mail, subject, seen, search_empty>>

\* main_loop: mail.close(); an exception skips logout and reaches the handler.
\* With no mailbox selected imaplib raises on close
CloseMail ==
    /\ pc = "close"
    /\ \E ok \in BOOLEAN :
          /\ (mail = "unselected") => ~ok
          /\ pc' = IF ok THEN "logout" ELSE AfterLoopException
          /\ mail' = IF ok THEN "closed" ELSE mail
    /\ trace' = <<>>
    /\ UNCHANGED <<subject, seen, azure_mails, msg_id, submitted, search_empty>>
    /\ LocalsUnchanged

\* main_loop: mail.logout()
LogoutMail ==
    /\ pc = "logout"
    /\ \E ok \in BOOLEAN :
          /\ pc' = IF ok THEN "sleep" ELSE AfterLoopException
          /\ mail' = IF ok THEN "logged_out" ELSE mail
    /\ UNCHANGED <<subject, seen, azure_mails, msg_id, trace, submitted, search_empty>>
    /\ LocalsUnchanged

\* main_loop: time.sleep(60) at the end of the try block
Sleep ==
    /\ pc = "sleep"
    /\ pc' = "connect"
    /\ UNCHANGED <<mail, subject, seen, azure_mails, msg_id, trace, submitted, search_empty>>
    /\ LocalsUnchanged

\* main_loop: time.sleep(60) in the except clause
SleepAfterException ==
    /\ pc = "sleep_except"
    /\ pc' = "connect"
    /\ UNCHANGED <<mail, subject, seen, azure_mails, msg_id, trace, submitted, search_empty>>
    /\ LocalsUnchanged

Next ==
    \/ GetWorkItemTypesStartup
    \/ ConnectMail
    \/ SearchMails
    \/ FetchMail
    \/ StoreSeen
    \/ GetWorkItemTypes
    \/ ClassifyMail
    \/ GetWorkItemStates
    \/ ResolveTargetState
    \/ PostWorkItem
    \/ CloseMail
    \/ LogoutMail
    \/ Sleep
    \/ SleepAfterException

Spec == Init /\ [][Next]_vars

\* the thread is always scheduled: a blocking call returns or raises
FairSpec == Spec /\ WF_vars(Next)

TypeOK ==
    /\ pc \in {"startup", "connect", "search", "fetch", "store", "types", "classify",
               "states", "resolve", "post", "close", "logout", "sleep", "sleep_except"}
    /\ seen \in [Msgs -> BOOLEAN]
    /\ msg_id \in 0..NumMsgs
    /\ submitted \subseteq Msgs
    /\ mail \in {"None", "open", "unselected", "closed", "logged_out"}

\* ------------------------------------------- the decision functions alone
\* create_work_item's state resolution applied to every column and every list
InitResolve ==
    /\ pc = "resolve"
    /\ MailboxInit
    /\ decoded_subject = <<>>
    /\ types_response = NoResponse
    /\ available_types = <<>>
    /\ work_item_type = "Issue"
    /\ target_column \in Columns
    /\ title = NoTitle
    /\ available_states \in ResolveStateLists
    /\ states_response = [status |-> "200", body |-> available_states]
    /\ target_state = "none"
    /\ trace = <<>>

SpecResolve == InitResolve /\ [][ResolveTargetState]_vars

\* process_mail's classification applied to every subject and every type list
InitClassify ==
    /\ pc = "classify"
    /\ MailboxInit
    /\ decoded_subject \in Subjects
    /\ available_types \in TypeLists
    /\ types_response = [status |-> "200", body |-> available_types]
    /\ work_item_type = "none"
    /\ target_column = "none"
    /\ title = NoTitle
    /\ states_response = NoResponse
    /\ available_states = <<>>
    /\ target_state = "none"
    /\ trace = <<>>

SpecClassify == InitClassify /\ [][ClassifyMail]_vars

\* ------------------------------------------------------------- properties
InTrace(e) == \E i \in 1..Len(trace) : trace[i] = e

Range(lst) == {lst[i] : i \in 1..Len(lst)}

\* the 2xx statuses among the outcomes of the creation request
Status2xx == {"200", "201", "204"}

\* the status a call of the current invocation returned, recorded after it
StatusOf(call) == trace[(CHOOSE i \in 1..Len(trace) : trace[i] = call) + 1]

\* the subjects of SubjectList, sorted by hand into what they announce
FailureSubjects == {SubjFailed, SubjBoth, SubjBothFS, SubjMixed}

SuccessSubjects == {SubjSucceeded}

NeitherSubjects == {SubjDigest, SubjPartial, SubjEmpty}

\* C1: at most one work-item creation request is ever submitted for any email,
\* whatever the mailbox and tracking calls answer: no creation request is
\* submitted for an email a creation request was already submitted for.
C1_AtMostOneCreationPerEmail ==
    [][PostWorkItem => msg_id \notin submitted]_vars

\* C2: within one process_mail invocation, classification, the state-listing
\* call and the creation request all come after the mark-seen store.
C2_StoreBeforeClassifyAndCreate ==
    \A i \in 1..Len(trace) :
        trace[i] \in {"classified", "log_sin_accion", "states", "post"}
            => \E j \in 1..(i - 1) : trace[j] = "store"

C2_Witness == InTrace("store") /\ InTrace("post")

\* C3: whenever create_work_item resolves a state, for any column and any
\* list of available states, that state is an element of the list.
C3_ResolvedStateIsAvailable ==
    (pc = "post") => target_state \in Range(available_states)

C3_Witness ==
    /\ pc = "post"
    /\ target_column \notin DOMAIN mapeo_columnas_estados
    /\ "To Do" \notin Range(available_states)
    /\ Len(available_states) = MaxStatesLen

\* C4: state resolution never fails: once the state list was obtained, the
\* resolution step completes with a state, whatever the list (the empty one
\* included).
C4_ResolutionNeverRaises ==
    (InTrace("states") /\ pc # "resolve") => InTrace("resolved")

\* C5: for a non-empty list the resolved state is the mapped state of the
\* column ("To Do" for an unmapped column) if listed, else "To Do" if listed,
\* else the first element; the fallback record is logged exactly when the
\* mapped state is not listed.
C5_ResolutionMatchesReference ==
    [][pc = "resolve" =>
        LET desired == IF target_column = "Bugs creados" THEN "To Do"
                       ELSE IF target_column = "En revision" THEN "Doing"
                       ELSE IF target_column = "Ejecucion existosa" THEN "Done"
                       ELSE "To Do"
            listed  == Range(available_states)
        IN  /\ InTrace("log_fallback")' <=> (desired \notin listed)
            /\ (available_states # <<>>) =>
                  /\ pc' = "post"
                  /\ target_state' = IF desired \in listed THEN desired
                                     ELSE IF "To Do" \in listed THEN "To Do"
                                     ELSE Head(available_states)]_vars

C5_Witness ==
    /\ pc = "post"
    /\ InTrace("log_fallback")
    /\ target_state # "To Do"
    /\ target_state = available_states[1]
    /\ Len(available_states) = MaxStatesLen

\* C6 as stated: the State of every creation request was listed by the board
\* in a state-listing call of the same invocation, also when that call failed.
C6_StateListedByBoard ==
    (pc = "post") =>
        /\ InTrace("states")
        /\ states_response.status = "200"
        /\ target_state \in Range(states_response.body)

\* C6 amended: the State of every creation request is an element of the list
\* create_work_item used, which is the board's answer to the state-listing
\* call of the same invocation when that call returned 200 and the fixed list
\* To Do, Doing, Done when it did not.
C6_StateInListUsed ==
    (pc = "post") =>
        /\ InTrace("states")
        /\ available_states = IF states_response.status = "200"
                              THEN states_response.body
                              ELSE <<"To Do", "Doing", "Done">>
        /\ target_state \in Range(available_states)

C6_Witness ==
    /\ pc = "post"
    /\ states_response.status = "500"
    /\ target_state = "Done"

\* C7: the branch process_mail takes depends on the subject alone: Failure and
\* column "Bugs creados" when it holds "failed" in any case (also next to
\* "succeeded"), else Success and "Ejecucion existosa" when it holds
\* "succeeded", else neither and nothing is created.
C7_ClassificationBySubject ==
    [][(pc = "classify" /\ available_types # <<>>) =>
        /\ (decoded_subject \in FailureSubjects) =>
              (pc' = "states" /\ target_column' = "Bugs creados")
        /\ (decoded_subject \in SuccessSubjects) =>
              (pc' = "states" /\ target_column' = "Ejecucion existosa")
        /\ (decoded_subject \in NeitherSubjects) =>
              (pc' # "states" /\ InTrace("log_sin_accion")')]_vars

C7_Witness ==
    /\ pc = "states"
    /\ decoded_subject = SubjBoth
    /\ target_column = "Bugs creados"

C9_EmptySearchNoTracking ==
    /\ [](search_empty => (trace = <<>> /\ pc \notin {"states", "resolve", "post"}))
    /\ [][search_empty => submitted' = submitted]_vars
    /\ [][(pc = "search" /\ search_empty') => pc' = "close"]_vars
    /\ [][(pc \in {"close", "logout"}) => pc' \in {"logout", "sleep", "sleep_except"}]_vars
    /\ [][(pc \in {"sleep", "sleep_except"}) => pc' = "connect"]_vars

C9_Witness == search_empty /\ pc = "sleep"

\* C10: no failure ends the loop: whatever has failed so far, the sleep step
\* is reached again and a connect attempt is made again, for ever.
C10_LoopNeverTerminates ==
    /\ []<>(pc \in {"sleep", "sleep_except"})
    /\ []<>(pc = "connect")

C10_Witness == pc = "sleep_except"

\* C11: every create_work_item invocation issues exactly one creation request
\* (POST), whatever the state-listing call answered and whatever list came
\* back, and never a second one after a failure.
C11_ExactlyOnePostPerInvocation ==
    (InTrace("states") /\ pc \notin {"resolve", "post"}) =>
        Cardinality({i \in 1..Len(trace) : trace[i] = "post"}) = 1

\* C12: when connecting, logging in or selecting the inbox fails, the loop
\* goes directly to the sleep step: no search, fetch, mark-seen store,
\* tracking call, close or logout in that cycle.
C12_FailedConnectSkipsCycle ==
    [][(pc = "connect" /\ mail' # "open") =>
          (pc' = "sleep" /\ UNCHANGED <<seen, submitted, trace>>)]_vars

\* C13 as stated: create_work_item reports success exactly when the response
\* status is a 2xx one; on every other outcome it reports failure without
\* raising and process_mail logs the failure.
C13_SuccessIffStatus2xx ==
    InTrace("post") =>
        /\ InTrace("log_asignado") <=> (StatusOf("post") \in Status2xx)
        /\ InTrace("log_asignado") \/ InTrace("log_no_se_pudo")
        /\ ~InTrace("log_error_procesando")

\* C13 amended: create_work_item reports success exactly when the response
\* status is 200 or 201 and its body can be read; on every other outcome
\* (other 2xx statuses included) it reports failure without raising and
\* process_mail logs the failure.
C13_SuccessIff200Or201 ==
    InTrace("post") =>
        /\ InTrace("log_asignado") <=>
              (StatusOf("post") \in {"200", "201"} /\ ~InTrace("unreadable"))
        /\ InTrace("log_asignado") <=> ~InTrace("log_no_se_pudo")
        /\ ~InTrace("log_error_procesando")

C13_Witness ==
    /\ InTrace("post")
    /\ StatusOf("post") = "204"
    /\ InTrace("log_error_creando")
    /\ InTrace("log_no_se_pudo")

\* C14 as stated: the title handed to create_work_item is "Error in pipeline: "
\* followed by the decoded subject for a Failure message and
\* "Pipeline succeeded: " followed by it for a Success message.
C14_TitleEnglishPrefix ==
    (pc \in {"states", "resolve", "post"}) =>
        title = [prefix  |-> IF subject[msg_id] \in FailureSubjects
                             THEN "Error in pipeline: "
                             ELSE "Pipeline succeeded: ",
                 subject |-> subject[msg_id]]

\* C14 amended: the title is the source's literal prefix, cross mark and
\* "Error en pipeline: " for a Failure message, check mark and
\* "Pipeline exitoso: " for a Success message, followed by the decoded subject.
C14_TitleSourcePrefix ==
    (pc \in {"states", "resolve", "post"}) =>
        title = [prefix  |-> IF subject[msg_id] \in FailureSubjects
                             THEN "[U+274C] Error en pipeline: "
                             ELSE "[U+2705] Pipeline exitoso: ",
                 subject |-> subject[msg_id]]

C14_Witness ==
    /\ pc = "post"
    /\ title.prefix = "[U+2705] Pipeline exitoso: "
    /\ title.subject = SubjSucceeded

\* C15: a session opened by a successful connect is closed and logged out
\* before the loop sleeps and before the next connect, whatever the search,
\* the processing, close and logout did; so at most one session is open.
C15_SessionClosedBeforeSleep ==
    (pc \in {"sleep", "sleep_except", "connect"}) => mail \in {"None", "logged_out"}

\* C16: a failure on one message does not end the cycle: the ids the search
\* returned are handed to fetch one by one, in the order returned, and the
\* session is not closed while one of them is left.
C16_EveryFoundIdFetchedInOrder ==
    /\ [][(pc = "search" /\ pc' = "fetch") =>
            <<msg_id'>> \o azure_mails' = UnseenFrom(1, seen)]_vars
    /\ [][(azure_mails' # azure_mails) =>
            \/ pc = "search"
            \/ /\ pc' = "fetch"
               /\ msg_id' = Head(azure_mails)
               /\ azure_mails' = Tail(azure_mails)]_vars
    /\ []((pc \in {"close", "logout", "sleep", "sleep_except", "connect"}) =>
            azure_mails = <<>>)

C16_Witness ==
    /\ pc = "fetch"
    /\ msg_id = 2
    /\ InTrace("store")
    /\ InTrace("log_error_procesando")

\* C17: between two consecutive connect attempts exactly one sleep step is
\* taken, on the normal path and on the exception path: connect is entered
\* only from a sleep step (or from startup), and a sleep step is followed by
\* connect.
C17_OneSleepBetweenConnects ==
    /\ [][(pc' = "connect") => pc \in {"startup", "sleep", "sleep_except"}]_vars
    /\ [][(pc \in {"sleep", "sleep_except"}) =>
            (pc' = "connect" /\ UNCHANGED <<seen, submitted, mail>>)]_vars

C17_Witness == pc = "connect" /\ mail = "closed"

\* C18: when fetch answers a status other than OK, process_mail returns with
\* no mark-seen store and no tracking call; the message stays unseen, and a
\* search that answers OK returns every unseen message.
C18_FetchNotOkLeavesUnseen ==
    /\ []((Len(trace) >= 2 /\ trace[1] = "fetch" /\ trace[2] = "NO") =>
            trace = <<"fetch", "NO">>)
    /\ [][(pc = "fetch" /\ Len(trace') >= 2 /\ trace'[2] = "NO") =>
            /\ seen' = seen
            /\ ~seen'[msg_id]
            /\ submitted' = submitted]_vars
    /\ [][(pc = "search" /\ pc' = "fetch") =>
            \A m \in Msgs : ~seen[m] => m \in Range(<<msg_id'>> \o azure_mails')]_vars

C18_Witness ==
    /\ trace = <<"fetch", "NO">>
    /\ pc = "close"
    /\ \A m \in Msgs : ~seen[m]

\* C19: the type list of a message is the board's answer when the type query
\* returned 200 and Issue, Task otherwise; for a Failure or Success message
\* the type handed to create_work_item is "Issue" when listed, else the first
\* element; with an empty list the store has been issued and nothing is
\* created.
C19_TypeIssueOrFirst ==
    /\ []((pc = "classify") =>
            available_types = IF types_response.status = "200"
                              THEN types_response.body
                              ELSE <<"Issue", "Task">>)
    /\ [][(pc = "classify" /\ decoded_subject \notin NeitherSubjects) =>
            IF available_types = <<>>
            THEN /\ InTrace("store")
                 /\ pc' \notin {"states", "resolve", "post"}
                 /\ ~InTrace("states")' /\ ~InTrace("post")'
                 /\ submitted' = submitted
            ELSE /\ pc' = "states"
                 /\ work_item_type' = IF "Issue" \in Range(available_types)
                                      THEN "Issue"
                                      ELSE Head(available_types)]_vars

C19_Witness ==
    /\ pc = "states"
    /\ available_types = <<"Task", "Bug">>
    /\ work_item_type = "Task"

====
